---- MODULE Spec2Model ----
(***************************************************************************)
(* ECE Tuner (ectuner.py): the bias table, the objective function, the     *)
(* per-parameter constraints and the tuning run built around               *)
(* scipy.optimize.minimize.                                                *)
(*                                                                         *)
(* Numbers.  A Python float is modelled as a one-element tuple <<n>> with  *)
(* n an integer, and the float NaN as the empty tuple NaN == << >>.        *)
(* Python lists are 0-based, TLA+ tuples 1-based: params[0] of the source  *)
(* is params[1] here.  A dict is a function; the empty dict is << >>.      *)
(***************************************************************************)
EXTENDS Integers, Sequences, FiniteSets, TLC

VARIABLES
    pc,              \* position of the run in __main__
    err,             \* the exception that ended the run, "none" otherwise
    vals,            \* load_params: parameter name -> current value
    reference_pars,  \* config['reference_parameters']
    inc,             \* fractional maximum parameter change
    penalty,         \* penalty for relative parameter changes
    maxiter,         \* iteration budget handed to minimize
    out,             \* whether an output file was asked for (-o)
    sensitivity,     \* param -> flux -> season -> region -> <<coefficient>>
    base,            \* flux -> season -> region -> simulated value
    reference,       \* flux -> season -> region -> reference value
    difference,      \* flux -> season -> region -> bias
    diffmax,         \* param -> maximum allowed absolute change
    constraints,     \* the list of constraint closures
    x,               \* the Change Vector the solver (or a caller) holds
    nit,             \* solver iterations done
    nfev,            \* objective evaluations made by the solver
    result,          \* what minimize returned: [x, success], << >> before
    score,           \* value of the last objective_function call
    log,             \* the logger's messages, in order
    outdict,         \* the exported dict, << >> when nothing was written
    outtable         \* rows of the printed parameter table

vars == <<pc, err, vals, reference_pars, inc, penalty, maxiter, out,
          sensitivity, base, reference, difference, diffmax, constraints,
          x, nit, nfev, result, score, log, outdict, outtable>>

----------------------------------------------------------------------------
(* Bounds of the model *)

MaxVal == 1        \* current parameter values range over -MaxVal..MaxVal
MaxRef == 1        \* reference parameter values range over 0..MaxRef
MaxInc == 1        \* fractional increment ranges over 1..MaxInc
MaxPenalty == 1    \* penalty coefficient ranges over 1..MaxPenalty
MaxIter == 2       \* iteration budget ranges over 1..MaxIter
MaxChange == 2     \* each component of a Change Vector lies in -MaxChange..MaxChange
MaxFlux == 1       \* simulated flux values range over 0..MaxFlux (and NaN)

----------------------------------------------------------------------------
(* Floats and dicts *)

NaN == << >>
Num(n) == <<n>>
isnan(v) == v = NaN
Abs(n) == IF n < 0 THEN -n ELSE n

\* float subtraction: NaN is absorbing
Sub(a, b) == IF isnan(a) \/ isnan(b) THEN NaN ELSE Num(a[1] - b[1])

EmptyDict == << >>
\* dict.get(k, default)
Get(d, k, default) == IF k \in DOMAIN d THEN d[k] ELSE default

\* whether table[f][s][r] exists, looking the three levels up in turn
HasTriple(table, t) ==
    /\ t[1] \in DOMAIN table
    /\ t[2] \in DOMAIN table[t[1]]
    /\ t[3] \in DOMAIN table[t[1]][t[2]]

At(table, t) == table[t[1]][t[2]][t[3]]

----------------------------------------------------------------------------
(* The key universe of the model: variables, seasons, regions.  A path is  *)
(* a key sequence of length 1..3; a table built from a set of paths holds  *)
(* every prefix as a (possibly empty) nested dict.                         *)

Fluxes == {"f1", "f2"}
Seasons == {"ALL", "DJF"}
Regions == {"Global", "NH"}

Triples == { <<"f1", "ALL", "Global">>, <<"f1", "ALL", "NH">>,
             <<"f1", "DJF", "Global">>, <<"f2", "ALL", "Global">> }

Stubs == { <<"f2">>, <<"f1", "DJF">> }

AllTriples == Fluxes \X Seasons \X Regions

\* leaf is a function from triples to leaf values
Table(P, leaf) ==
    [f \in {p[1] : p \in P} |->
       [s \in {p[2] : p \in {q \in P : Len(q) >= 2 /\ q[1] = f}} |->
          [r \in {p[3] : p \in {q \in P : Len(q) = 3 /\ q[1] = f /\ q[2] = s}} |->
             leaf[<<f, s, r>>]]]]

----------------------------------------------------------------------------
(* compute_difference *)

DiffReversed(b, ref) ==
    [key \in DOMAIN b |->
       [subkey \in {k \in DOMAIN b[key] : key \in DOMAIN ref /\ k \in DOMAIN ref[key]} |->
          [subsubkey \in {k \in DOMAIN b[key][subkey] : k \in DOMAIN ref[key][subkey]} |->
             Sub(ref[key][subkey][subsubkey], b[key][subkey][subsubkey])]]]

\* difference[key] = {} for every key of base; a season is entered when the
\* reference has it; a region gets base - reference when the reference has it
compute_difference(b, ref) ==
    [key \in DOMAIN b |->
       [subkey \in {k \in DOMAIN b[key] : key \in DOMAIN ref /\ k \in DOMAIN ref[key]} |->
          [subsubkey \in {k \in DOMAIN b[key][subkey] : k \in DOMAIN ref[key][subkey]} |->
             Sub(b[key][subkey][subsubkey], ref[key][subkey][subsubkey])]]]

----------------------------------------------------------------------------
(* Configuration held fixed: the parameter ordering and the weights *)

\* load_params: list(params.keys()), the ordering of the Change Vector
params == <<"p1", "p2">>
ParamNames == {params[i] : i \in 1..Len(params)}

weights_flux == [f \in Fluxes |-> IF f = "f1" THEN 1 ELSE 2]
weights_season == [s \in Seasons |-> IF s = "ALL" THEN 1 ELSE 2]
weights_region == [r \in Regions |-> IF r = "Global" THEN 1 ELSE 3]
targets == DOMAIN weights_flux

parameter_group == [g \in {"g1", "g2"} |-> IF g = "g1" THEN <<"p1">> ELSE <<"p2">>]

----------------------------------------------------------------------------
(* objective_function *)

\* sum of the values of a function with a finite domain
RECURSIVE SumFun(_)
SumFun(f) ==
    IF DOMAIN f = {} THEN 0
    ELSE LET e == CHOOSE e \in DOMAIN f : TRUE
         IN  f[e] + SumFun([d \in DOMAIN f \ {e} |-> f[d]])

\* the three nested loops over sensitivity[params[0]]
KeySpace(sens) ==
    {t \in Fluxes \X Seasons \X Regions : HasTriple(sens[params[1]], t)}

\* difference.get(fluxname, {}).get(season, {}).get(region, np.nan)
BiasOrNaNZeroDefault(diff, t) ==
    Get(Get(Get(diff, t[1], EmptyDict), t[2], EmptyDict), t[3], Num(0))

BiasOrNaN(diff, t) ==
    Get(Get(Get(diff, t[1], EmptyDict), t[2], EmptyDict), t[3], NaN)

\* the triples whose body runs: not math.isnan(...)
Gated(sens, diff) == {t \in KeySpace(sens) : ~isnan(BiasOrNaN(diff, t))}

\* sum(sensitivity[param][fluxname][season][region][0] * changes[i] ...)
flux_change(changes, sens, t) ==
    SumFun([i \in 1..Len(params) |-> At(sens[params[i]], t)[1] * changes[i]])

\* a lookup of the body fails: some parameter has no coefficient for t
LookupFails(sens, diff) ==
    \/ params[1] \notin DOMAIN sens
    \/ \E t \in Gated(sens, diff) :
          \/ \E i \in 1..Len(params) :
                \/ params[i] \notin DOMAIN sens
                \/ ~HasTriple(sens[params[i]], t)
          \/ ~HasTriple(diff, t)
          \/ t[1] \notin DOMAIN weights_flux
          \/ t[2] \notin DOMAIN weights_season
          \/ t[3] \notin DOMAIN weights_region

total_difference(changes, sens, diff) ==
    SumFun([t \in Gated(sens, diff) |->
               weights_flux[t[1]] * weights_region[t[3]] * weights_season[t[2]]
               * (At(diff, t)[1] + flux_change(changes, sens, t))
               * (At(diff, t)[1] + flux_change(changes, sens, t))])

\* The penalty sum is a rational: it is kept over the common denominator
\* Den = product of reference_pars[param]^2.
RECURSIVE ProdFun(_)
ProdFun(f) ==
    IF DOMAIN f = {} THEN 1
    ELSE LET e == CHOOSE e \in DOMAIN f : TRUE
         IN  f[e] * ProdFun([d \in DOMAIN f \ {e} |-> f[d]])

Den(refp) == ProdFun([i \in 1..Len(params) |-> refp[params[i]] * refp[params[i]]])

\* reference_pars[param] - (values[param] + changes[i])
Deviation(changes, values, refp, i) ==
    refp[params[i]] - (values[params[i]] + changes[i])

param_difference_scaled(changes, values, refp) ==
    SumFun([i \in 1..Len(params) |->
               Deviation(changes, values, refp, i)
               * Deviation(changes, values, refp, i)
               * ProdFun([j \in 1..Len(params) \ {i} |->
                            refp[params[j]] * refp[params[j]]])])

\* The value of a call: kind "KeyError" when a lookup raised; otherwise the
\* float returned, "num" standing for the rational num / Den(refp), "inf" and
\* "nan" for what the float64 division by a zero reference value gives
\* (nonzero/0 = inf, 0/0 = nan, nan absorbing in the sum).  flux is the
\* local total_difference at the return.
objective_function(changes, values, refp, pen, sens, diff) ==
    IF LookupFails(sens, diff)
    THEN [kind |-> "KeyError", flux |-> 0, num |-> 0]
    ELSE LET zeros == {i \in 1..Len(params) : refp[params[i]] = 0}
             td == total_difference(changes, sens, diff)
         IN  IF zeros = {}
             THEN [kind |-> "num", flux |-> td,
                   num |-> td * Den(refp)
                           + param_difference_scaled(changes, values, refp) * pen]
             ELSE IF \E i \in zeros : Deviation(changes, values, refp, i) = 0
             THEN [kind |-> "nan", flux |-> td, num |-> 0]
             ELSE [kind |-> "inf", flux |-> td, num |-> 0]

NoScore == [kind |-> "none", flux |-> 0, num |-> 0]

----------------------------------------------------------------------------
(* Input families *)

ZeroVector == [i \in 1..Len(params) |-> 0]
ChangeVectors(m) == [1..Len(params) -> (-m)..m]

\* simulated flux tables: any set of paths, each leaf a value of 0..MaxFlux or NaN
BaseVals == {Num(v) : v \in 0..MaxFlux} \cup {NaN}
BaseTables ==
    UNION { { Table(P, lf) : lf \in [P \cap Triples -> BaseVals] }
            : P \in SUBSET (Triples \cup Stubs) }

\* reference flux tables: any set of paths, the reference value set by the region
RefValue == [t \in AllTriples |-> IF t[3] = "Global" THEN Num(1) ELSE Num(3)]
RefTables == { Table(P, RefValue) : P \in SUBSET (Triples \cup Stubs) }

\* bias tables handed to objective_function: any set of triples, at most one
\* of the biases NaN
BiasValue ==
    [t \in AllTriples |->
       IF t = <<"f1", "ALL", "Global">> THEN Num(1)
       ELSE IF t = <<"f1", "ALL", "NH">> THEN Num(-2)
       ELSE IF t = <<"f1", "DJF", "Global">> THEN Num(2)
       ELSE Num(3)]
BiasTables ==
    UNION { { Table(B, [t \in B |-> IF t = n THEN NaN ELSE BiasValue[t]])
              : n \in B \cup {<< >>} }
            : B \in SUBSET Triples }

\* sensitivity tables: the key sets of the two parameters differ by at most
\* one triple; the coefficient of parameter i is c * i
CoefVals == {-1, 1}
Near(K) == {K} \cup {K \cup {t} : t \in Triples} \cup {K \ {t} : t \in Triples}
SensTable(K1, K2, c) ==
    [p \in ParamNames |->
       IF p = params[1] THEN Table(K1, [t \in K1 |-> <<c>>])
                        ELSE Table(K2, [t \in K2 |-> <<2 * c>>])]
SensTables ==
    UNION { { SensTable(K1, K2, c) : K2 \in Near(K1), c \in CoefVals }
            : K1 \in SUBSET Triples }

----------------------------------------------------------------------------
(* The parts of the state a specification does not use *)

NoRun ==
    /\ err = "none"
    /\ inc = 1
    /\ maxiter = 1
    /\ out = FALSE
    /\ diffmax = EmptyDict
    /\ constraints = << >>
    /\ nit = 0
    /\ nfev = 0
    /\ result = << >>
    /\ log = << >>
    /\ outdict = EmptyDict
    /\ outtable = << >>

----------------------------------------------------------------------------
(* compute_difference on its own: SpecDiff *)

InitDiff ==
    /\ pc = "loaded"
    /\ base \in BaseTables
    /\ reference \in RefTables
    /\ difference = EmptyDict
    /\ sensitivity = EmptyDict
    /\ vals = [p \in ParamNames |-> 1]
    /\ reference_pars = [p \in ParamNames |-> 1]
    /\ penalty = 1
    /\ x = ZeroVector
    /\ score = NoScore
    /\ NoRun

\* line 215: difference = compute_difference(base, reference)
ComputeDifference ==
    /\ pc = "loaded"
    /\ difference' = compute_difference(base, reference)
    /\ pc' = "diffed"
    /\ UNCHANGED <<err, vals, reference_pars, inc, penalty, maxiter, out,
                   sensitivity, base, reference, diffmax, constraints,
                   x, nit, nfev, result, score, log, outdict, outtable>>

SpecDiff == InitDiff /\ [][ComputeDifference]_vars

\* C2: after compute_difference(base, reference) the result holds a value for
\* a (variable, season, region) triple exactly when both tables hold the
\* triple at all three levels, the value is base minus reference, the call
\* ends without an error, and no step changes base or reference.
C2_DifferenceIsBaseMinusReference ==
    /\ [](pc = "diffed" =>
            /\ err = "none"
            /\ DOMAIN difference \subseteq Fluxes
            /\ \A f \in DOMAIN difference :
                  /\ DOMAIN difference[f] \subseteq Seasons
                  /\ \A se \in DOMAIN difference[f] :
                        DOMAIN difference[f][se] \subseteq Regions
            /\ \A t \in AllTriples :
                  /\ HasTriple(difference, t)
                        <=> (HasTriple(base, t) /\ HasTriple(reference, t))
                  /\ HasTriple(difference, t)
                        => At(difference, t) = Sub(At(base, t), At(reference, t)))
    /\ [][base' = base /\ reference' = reference]_vars

\* a difference with an entry, next to a triple only base has and one only
\* the reference has
C2_Witness ==
    /\ pc = "diffed"
    /\ \E t \in AllTriples : HasTriple(difference, t) /\ At(difference, t) = Num(-2)
    /\ \E t \in AllTriples : HasTriple(base, t) /\ ~HasTriple(reference, t)
    /\ \E t \in AllTriples : ~HasTriple(base, t) /\ HasTriple(reference, t)

----------------------------------------------------------------------------
(* objective_function on its own: SpecObj *)

MaxArg == 1        \* the Change Vectors a caller passes lie in (-MaxArg..MaxArg)^n

InitObj ==
    /\ pc = "call"
    /\ x \in ChangeVectors(MaxArg)
    /\ sensitivity \in SensTables
    /\ difference \in BiasTables
    /\ vals = [p \in ParamNames |-> MaxVal]
    /\ reference_pars = [p \in ParamNames |-> MaxRef]
    /\ penalty = MaxPenalty
    /\ base = EmptyDict
    /\ reference = EmptyDict
    /\ score = NoScore
    /\ NoRun

\* one call objective_function(changes, ...) with changes = x
EvaluateObjective ==
    /\ pc = "call"
    /\ score' = objective_function(x, vals, reference_pars, penalty,
                                   sensitivity, difference)
    /\ pc' = "returned"
    /\ UNCHANGED <<err, vals, reference_pars, inc, penalty, maxiter, out,
                   sensitivity, base, reference, difference, diffmax,
                   constraints, x, nit, nfev, result, log, outdict, outtable>>

SpecObj == InitObj /\ [][EvaluateObjective]_vars

\* the triples the Flux Bias mapping holds with a defined (non-NaN) value
DefinedBias(diff) == {t \in AllTriples : HasTriple(diff, t) /\ ~isnan(At(diff, t))}

WeightedSquare(diff, t) ==
    weights_flux[t[1]] * weights_season[t[2]] * weights_region[t[3]]
    * At(diff, t)[1] * At(diff, t)[1]

\* C3: for the all-zero Change Vector the flux term is the sum, over every
\* triple present and defined in the Flux Bias mapping, of flux weight x
\* season weight x region weight x bias^2.
C3_ZeroVectorFluxTerm ==
    (pc = "returned" /\ x = ZeroVector /\ score.kind = "num")
        => score.flux = SumFun([t \in DefinedBias(difference) |->
                                  WeightedSquare(difference, t)])

\* the sensitivity model without the entry of triple t, for every parameter
RemoveTriple(sens, t) ==
    [p \in DOMAIN sens |->
       [f \in DOMAIN sens[p] |->
          [se \in DOMAIN sens[p][f] |->
             [r \in {k \in DOMAIN sens[p][f][se] : <<f, se, k>> # t} |->
                sens[p][f][se][r]]]]]

InSensitivity(sens, t) == \E p \in DOMAIN sens : HasTriple(sens[p], t)

\* C4: a triple of the Sensitivity Model whose bias is absent (at the flux,
\* season or region level) or NaN changes nothing: the call returns what it
\* returns with that sensitivity entry removed, error or value alike.
C4_UnmatchedSensitivityIgnored ==
    pc = "returned" =>
        \A t \in AllTriples :
            (/\ InSensitivity(sensitivity, t)
             /\ ~HasTriple(difference, t) \/ isnan(At(difference, t)))
                => score = objective_function(x, vals, reference_pars, penalty,
                                              RemoveTriple(sensitivity, t), difference)

\* a value was returned for a nonzero Change Vector while the first
\* parameter has coefficients for a triple without bias and for one with a
\* NaN bias, next to a triple that does count
C4_Witness ==
    /\ pc = "returned"
    /\ score.kind = "num"
    /\ score.flux > 0
    /\ \A i \in 1..Len(params) : x[i] # 0
    /\ \E t \in KeySpace(sensitivity) : ~HasTriple(difference, t)
    /\ \E t \in KeySpace(sensitivity) :
          HasTriple(difference, t) /\ isnan(At(difference, t))

\* C5: when some parameter has no coefficient for a triple whose bias is
\* defined, the evaluation fails, whichever parameter it is.
C5_MissingCoefficientFails ==
    (/\ pc = "returned"
     /\ \E t \in DefinedBias(difference) :
           \E p \in ParamNames : ~HasTriple(sensitivity[p], t))
        => score.kind = "KeyError"

----------------------------------------------------------------------------
(* The tuning run (__main__): Spec *)

\* the tables of a run: complete ones, and ones with an entry missing or NaN
RunBaseValue == [t \in AllTriples |-> IF t[3] = "Global" THEN Num(6) ELSE Num(8)]
RunBase ==
    { Table(Triples, RunBaseValue),
      Table(Triples, [t \in Triples |-> IF t = <<"f1", "ALL", "NH">> THEN NaN
                                         ELSE RunBaseValue[t]]),
      Table(Triples \ {<<"f2", "ALL", "Global">>}, RunBaseValue) }
RunRef == { Table(Triples, RefValue) }
RunSens ==
    { SensTable(Triples, Triples, -1),
      SensTable(Triples, Triples \ {<<"f1", "DJF", "Global">>}, -1),
      SensTable(Triples \ {<<"f1", "DJF", "Global">>}, Triples, -1),
      SensTable(Triples \ {<<"f1", "ALL", "NH">>}, Triples, -1) }

Init ==
    /\ pc = "loaded"
    /\ err = "none"
    /\ vals \in [ParamNames -> {-MaxVal, 0, MaxVal}]
    /\ reference_pars \in [ParamNames -> {0, MaxRef}]
    /\ inc = MaxInc
    /\ penalty = MaxPenalty
    /\ maxiter \in 1..MaxIter
    /\ out \in BOOLEAN
    /\ sensitivity \in RunSens
    /\ base \in RunBase
    /\ reference \in RunRef
    /\ difference = EmptyDict
    /\ diffmax = EmptyDict
    /\ constraints = << >>
    /\ x = ZeroVector
    /\ nit = 0
    /\ nfev = 0
    /\ result = << >>
    /\ score = NoScore
    /\ log = << >>
    /\ outdict = EmptyDict
    /\ outtable = << >>

\* lines 217-221: diffmax[params[i]] = vals[i] * inc (values is vals by name)
DiffmaxOf(p) == vals[p] * inc

BuildDiffmax ==
    /\ pc = "diffed"
    /\ diffmax' = [p \in ParamNames |-> DiffmaxOf(p)]
    /\ pc' = "bounded"
    /\ UNCHANGED <<err, vals, reference_pars, inc, penalty, maxiter, out,
                   sensitivity, base, reference, difference, constraints,
                   x, nit, nfev, result, score, log, outdict, outtable>>

\* line 232: the closure made for loop index i; the default argument i=i
\* binds the index at creation
ClosureLateBinding(i) == [type |-> "ineq", i |-> Len(params)]
Closure(i) == [type |-> "ineq", i |-> i]

\* calling constraints[k]['fun'](xx): diffmax[params[i]] - np.abs(x[i])
ConFun(c, xx) == diffmax[params[c.i]] - Abs(xx[c.i])

\* lines 232-235: the constraint list and initial_guess = np.zeros(len(params))
BuildConstraints ==
    /\ pc = "bounded"
    /\ constraints' = [k \in 1..Len(params) |-> Closure(k)]
    /\ x' = ZeroVector
    /\ pc' = "constrained"
    /\ UNCHANGED <<err, vals, reference_pars, inc, penalty, maxiter, out,
                   sensitivity, base, reference, difference, diffmax,
                   nit, nfev, result, score, log, outdict, outtable>>

\* print_change: the (flux, region) pairs of season 'ALL' it prints
Printed ==
    {fr \in Fluxes \X Regions :
        /\ fr[1] \in targets
        /\ HasTriple(difference, <<fr[1], "ALL", fr[2]>>)
        /\ ~isnan(At(difference, <<fr[1], "ALL", fr[2]>>))}

\* print_change raises KeyError: a target flux without difference[flux]['ALL'],
\* or a printed pair without a coefficient for some parameter
PrintChangeFails ==
    \/ \E f \in targets : f \notin DOMAIN difference \/ "ALL" \notin DOMAIN difference[f]
    \/ \E fr \in Printed :
          \E i \in 1..Len(params) :
              ~HasTriple(sensitivity[params[i]], <<fr[1], "ALL", fr[2]>>)

Lines(n, msg) == [k \in 1..n |-> msg]

\* lines 241-245
PrintBefore ==
    /\ pc = "constrained"
    /\ IF PrintChangeFails
       THEN /\ pc' = "aborted"
            /\ err' = "KeyError"
            /\ log' = log \o <<"Target offset before optimization:">>
       ELSE /\ pc' = "optimizing"
            /\ err' = err
            /\ log' = log \o <<"Target offset before optimization:">>
                          \o Lines(Cardinality(Printed), "%s %s %s")
                          \o <<"Optimizing parameters ...">>
    /\ UNCHANGED <<vals, reference_pars, inc, penalty, maxiter, out,
                   sensitivity, base, reference, difference, diffmax,
                   constraints, x, nit, nfev, result, score, outdict, outtable>>

\* The solver is scipy.optimize.minimize, a library outside this source.
\* What the call fixes is kept: the start at initial_guess, the objective
\* and its arguments, the method, the constraints handed over and the
\* budget maxiter.  The search itself is abstracted: a step evaluates the
\* objective at a point next to the current one, on the grid
\* ChangeVectors(MaxChange), and moves there when the score is lower.
\*
\* lines 247-248, and the methods of scipy.optimize.minimize that take
\* `constraints` (named in the comment of line 248); any other method,
\* TNC among them, drops the argument
method == "TNC"
ConstraintMethods == {"COBYLA", "SLSQP", "trust-constr"}

Feasible(xx) ==
    method \in ConstraintMethods
        => \A k \in 1..Len(constraints) : ConFun(constraints[k], xx) >= 0

\* float comparison f < g of two scores of one run (same denominator)
Less(f, g) ==
    \/ f.kind = "num" /\ g.kind = "num" /\ f.num < g.num
    \/ f.kind = "num" /\ g.kind = "inf"

Objective(xx) ==
    objective_function(xx, vals, reference_pars, penalty, sensitivity, difference)

\* the points one search step away
Neighbours(xx) ==
    {c \in ChangeVectors(MaxChange) :
        \E i \in 1..Len(params) :
            /\ Abs(c[i] - xx[i]) = 1
            /\ \A j \in 1..Len(params) \ {i} : c[j] = xx[j]}

Converged(xx, f) ==
    \A c \in Neighbours(xx) : Feasible(c) => ~Less(Objective(c), f)

\* lines 249-251, entering minimize: the objective is evaluated at
\* initial_guess; an exception of the objective leaves minimize
SolverStart ==
    /\ pc = "optimizing"
    /\ nfev' = 1
    /\ score' = Objective(x)
    /\ IF Objective(x).kind = "KeyError"
       THEN pc' = "aborted" /\ err' = "KeyError"
       ELSE pc' = "searching" /\ err' = err
    /\ UNCHANGED <<vals, reference_pars, inc, penalty, maxiter, out,
                   sensitivity, base, reference, difference, diffmax,
                   constraints, x, nit, result, log, outdict, outtable>>

\* one iteration of the search, within the budget 'maxiter': a neighbouring
\* point is evaluated and taken when its score is lower
SolverStep ==
    /\ pc = "searching"
    /\ nit < maxiter
    /\ ~Converged(x, score)
    /\ \E c \in Neighbours(x) :
          /\ Feasible(c)
          /\ nit' = nit + 1
          /\ nfev' = nfev + 1
          /\ IF Less(Objective(c), score)
             THEN x' = c /\ score' = Objective(c)
             ELSE x' = x /\ score' = score
    /\ UNCHANGED <<pc, err, vals, reference_pars, inc, penalty, maxiter, out,
                   sensitivity, base, reference, difference, diffmax,
                   constraints, result, log, outdict, outtable>>

\* minimize returns: the search converged, or the budget is used up
SolverReturn ==
    /\ pc = "searching"
    /\ Converged(x, score) \/ nit = maxiter
    /\ result' = [x |-> x, success |-> Converged(x, score)]
    /\ pc' = "solved"
    /\ UNCHANGED <<err, vals, reference_pars, inc, penalty, maxiter, out,
                   sensitivity, base, reference, difference, diffmax,
                   constraints, x, nit, nfev, score, log, outdict, outtable>>

\* line 254
optimal_changes == [p \in ParamNames |->
                      result.x[CHOOSE i \in 1..Len(params) : params[i] = p]]

\* lines 254-264: the offsets and the two scores are logged
ReportAfter ==
    /\ pc = "solved"
    /\ log' = log \o <<"Target offset after optimization:">>
                  \o Lines(Cardinality(Printed), "%s %s %s")
                  \o <<"Total score before optimization: %s",
                       "Total score after optimization: %s">>
    /\ score' = Objective(result.x)
    /\ pc' = "scored"
    /\ UNCHANGED <<err, vals, reference_pars, inc, penalty, maxiter, out,
                   sensitivity, base, reference, difference, diffmax,
                   constraints, x, nit, nfev, result, outdict, outtable>>

\* lines 266-275: the grouped new values, written when -o was given
Export ==
    /\ pc = "scored"
    /\ IF out
       THEN /\ outdict' =
                 [tuning |->
                    [pg \in DOMAIN parameter_group |->
                       [p \in {parameter_group[pg][k] :
                                 k \in 1..Len(parameter_group[pg])} |->
                          vals[p] + optimal_changes[p]]]]
            /\ log' = log \o <<"Optimal parameter changes written to %s">>
       ELSE UNCHANGED <<outdict, log>>
    /\ pc' = "exported"
    /\ UNCHANGED <<err, vals, reference_pars, inc, penalty, maxiter, out,
                   sensitivity, base, reference, difference, diffmax,
                   constraints, x, nit, nfev, result, score, outtable>>

\* lines 277-286: the table rows; the relative change is the float64
\* quotient change / value, kept as the pair <<change, value>> (a zero
\* value gives inf or nan, no exception)
PrintTable ==
    /\ pc = "exported"
    /\ outtable' = [p \in ParamNames |->
                      [new |-> vals[p] + optimal_changes[p],
                       old |-> vals[p],
                       change |-> optimal_changes[p],
                       relative |-> <<optimal_changes[p], vals[p]>>,
                       max |-> diffmax[p]]]
    /\ pc' = "done"
    /\ UNCHANGED <<err, vals, reference_pars, inc, penalty, maxiter, out,
                   sensitivity, base, reference, difference, diffmax,
                   constraints, x, nit, nfev, result, score, log, outdict>>

Next ==
    \/ ComputeDifference
    \/ BuildDiffmax
    \/ BuildConstraints
    \/ PrintBefore
    \/ SolverStart
    \/ SolverStep
    \/ SolverReturn
    \/ ReportAfter
    \/ Export
    \/ PrintTable

Spec == Init /\ [][Next]_vars

----------------------------------------------------------------------------
(* Claims about the run *)

\* C1: the Change Vector minimize returns satisfies |change_i| <= max_change_i
\* for every parameter, so every reported new value is within max_change_i
\* of the current value.  (Stated for runs whose bounds are all >= 0, where
\* the constraint set is not empty.)
C1_ResultWithinBounds ==
    (\A p \in ParamNames : vals[p] * inc >= 0) =>
        /\ result # << >> =>
              \A i \in 1..Len(params) : Abs(result.x[i]) <= diffmax[params[i]]
        /\ outtable # << >> =>
              \A p \in ParamNames :
                 Abs(outtable[p].new - outtable[p].old) <= outtable[p].max

Degenerate == \E p \in ParamNames : reference_pars[p] = 0 \/ vals[p] = 0

\* C6: with a parameter whose reference value or current value is zero, the
\* solver never evaluates the objective and nothing is reported or exported:
\* the run has aborted before the optimization.
C6_DegenerateAbortsBeforeOptimization ==
    Degenerate =>
        /\ nfev = 0
        /\ pc \notin {"searching", "solved", "scored", "exported", "done"}
        /\ outdict = EmptyDict
        /\ outtable = << >>

\* C7: every maximum allowed change built at load time is >= 0, whatever the
\* sign of the current value, so the all-zero Change Vector satisfies every
\* constraint.
C7_DiffmaxNonNegative ==
    /\ diffmax # EmptyDict => \A p \in ParamNames : diffmax[p] >= 0
    /\ constraints # << >> =>
          \A k \in 1..Len(constraints) : ConFun(constraints[k], ZeroVector) >= 0

\* C8: the k-th constraint function evaluates to the k-th parameter's maximum
\* change minus |x[k]| for every Change Vector x: non-negative exactly when
\* |x[k]| <= max_change_k, zero on the boundary, and unchanged when another
\* component of x changes.
C8_ConstraintBoundToOwnIndex ==
    constraints # << >> =>
        /\ Len(constraints) = Len(params)
        /\ \A k \in 1..Len(params) :
             \A xx \in ChangeVectors(MaxChange) :
                /\ constraints[k].type = "ineq"
                /\ ConFun(constraints[k], xx) = diffmax[params[k]] - Abs(xx[k])
                /\ ConFun(constraints[k], xx) >= 0 <=> Abs(xx[k]) <= diffmax[params[k]]
                /\ Abs(xx[k]) = diffmax[params[k]] => ConFun(constraints[k], xx) = 0
                /\ \A j \in 1..Len(params) \ {k} :
                     \A v \in (-MaxChange)..MaxChange :
                        ConFun(constraints[k], [xx EXCEPT ![j] = v])
                            = ConFun(constraints[k], xx)

\* the search stands at a point on the boundary of one parameter's
\* constraint while the two parameters have different bounds
C8_Witness ==
    /\ pc = "searching"
    /\ diffmax[params[1]] # diffmax[params[2]]
    /\ \E k \in 1..Len(params) : x[k] # 0 /\ ConFun(constraints[k], x) = 0

\* every message the run logs when the solver converged
ConvergedRunMessages ==
    { "Target offset before optimization:", "%s %s %s",
      "Optimizing parameters ...", "Target offset after optimization:",
      "Total score before optimization: %s", "Total score after optimization: %s",
      "Optimal parameter changes written to %s" }

\* C10: a run whose solver used up the iteration budget without converging
\* ends with its report, and has logged a warning that a converged run does
\* not log.
C10_NonConvergenceWarned ==
    (pc = "done" /\ ~result.success)
        => \E k \in 1..Len(log) : log[k] \notin ConvergedRunMessages

====
